---- MODULE Spec2Model ----
(***************************************************************************)
(* Verification model of the notebooks.                                    *)
(*                                                                         *)
(*   naive-bayes.ipynb   training by counting, the naive product cell,     *)
(*                       bayespost and the error-rate loop  (SpecBayes)    *)
(*   parameters.ipynb    the tied parameters cell            (SpecParams)  *)
(*                       the initialisation cells of the                   *)
(*                       first net and the direct-set cell     (SpecInit)  *)
(*   part_000            the vectorization cells of the linear             *)
(*                       regression notebook                    (SpecAdd)  *)
(*   all notebooks       code cells run from fresh kernels,                *)
(*                       as names read and bound              (SpecCells)  *)
(*                                                                         *)
(* Arithmetic.  float32 values are modelled as exact rationals together    *)
(* with the IEEE special values the cells can produce (nan, +inf, and      *)
(* -inf in log space).  Underflow is modelled: a positive product or       *)
(* exponential smaller than 1/MinPosDen becomes 0.  Rounding of values     *)
(* that do not underflow is not modelled.  A log-space value log(q) is     *)
(* represented by its argument q, so that a sum of logarithms is the       *)
(* logarithm of the product of the arguments.                              *)
(***************************************************************************)
EXTENDS Integers, FiniteSets, Sequences, TLC

\* ------------------------------------------------------------------ bounds
\* Number of pixels of an image (784 in the notebook, scaled down).
NumPixels == 2
\* Number of classes (10 in the notebook, scaled down).
NumClasses == 2
\* Largest number of training samples mnist_train yields.
MaxTrain == 3
\* Largest number of test samples the error-rate loop reads.
MaxTest == 2
\* 1/MinPosDen stands for the smallest positive float: smaller positive
\* results of a multiplication or an exponential underflow to 0.
MinPosDen == 6
\* Shape of the tied weight matrix.
WRows == 2
WCols == 2
\* Length of the vectors a, b, c and d (10000 in the notebook).
VecLen == 3
\* Largest reading of the wall clock, in ticks.
MaxTick == 5

Pixels == 1..NumPixels
Classes == 0..(NumClasses - 1)
Images == [Pixels -> {0, 1}]
Samples == [data : Images, label : Classes]

\* ------------------------------------------------------- exact rationals
Abs(n) == IF n < 0 THEN -n ELSE n

RECURSIVE GCD(_, _)
GCD(a, b) == IF b = 0 THEN a ELSE GCD(b, a % b)

\* The rational n/d (d > 0) in lowest terms.
Rat(n, d) == LET g == GCD(Abs(n), d) IN <<n \div g, d \div g>>

RZero == <<0, 1>>
ROne == <<1, 1>>
RAdd(a, b) == Rat(a[1] * b[2] + b[1] * a[2], a[2] * b[2])
RSub(a, b) == Rat(a[1] * b[2] - b[1] * a[2], a[2] * b[2])
RMul(a, b) == Rat(a[1] * b[1], a[2] * b[2])
\* a / b for b > 0
RDiv(a, b) == Rat(a[1] * b[2], a[2] * b[1])
RLt(a, b) == a[1] * b[2] < b[1] * a[2]
RLe(a, b) == a[1] * b[2] <= b[1] * a[2]

\* Underflow of a non-negative float result.
Flush(r) == IF r[1] > 0 /\ RLt(r, <<1, MinPosDen>>) THEN RZero ELSE r

\* ---------------------------------------------------------- float values
Fin(r) == [k |-> "fin", v |-> r]
NaN == [k |-> "nan", v |-> RZero]
PInf == [k |-> "inf", v |-> RZero]
\* log space: Log(q) is the float log(q) for a rational q > 0
Log(q) == [k |-> "log", v |-> q]
NInf == [k |-> "ninf", v |-> RZero]
LZero == Log(ROne)

IsNaN(a) == a.k = "nan"

\* a * b
FMul(a, b) ==
  IF a.k = "nan" \/ b.k = "nan" THEN NaN
  ELSE IF a.k = "inf" \/ b.k = "inf"
       THEN (IF (a.k = "fin" /\ a.v = RZero) \/ (b.k = "fin" /\ b.v = RZero)
             THEN NaN ELSE PInf)
  ELSE Fin(Flush(RMul(a.v, b.v)))

\* a + b
FAdd(a, b) ==
  IF a.k = "nan" \/ b.k = "nan" THEN NaN
  ELSE IF a.k = "inf" \/ b.k = "inf" THEN PInf
  ELSE Fin(RAdd(a.v, b.v))

\* a / b for non-negative a and b
FDiv(a, b) ==
  IF a.k = "nan" \/ b.k = "nan" THEN NaN
  ELSE IF a.k = "inf" THEN (IF b.k = "inf" THEN NaN ELSE PInf)
  ELSE IF b.k = "inf" THEN Fin(RZero)
  ELSE IF b.v = RZero THEN (IF a.v = RZero THEN NaN ELSE PInf)
  ELSE Fin(RDiv(a.v, b.v))

\* a < b; every comparison with nan is false
FLt(a, b) ==
  IF a.k = "nan" \/ b.k = "nan" THEN FALSE
  ELSE IF a.k = "inf" THEN FALSE
  ELSE IF b.k = "inf" THEN TRUE
  ELSE RLt(a.v, b.v)

\* nd.log of a non-negative finite float
FLog(a) ==
  IF a.k = "nan" THEN NaN
  ELSE IF a.v = RZero THEN NInf
  ELSE Log(a.v)

\* log-space value times a pixel bit (0 or 1): -inf * 0 is nan
LMulBit(a, b) ==
  IF b = 1 THEN a
  ELSE IF a.k \in {"nan", "ninf", "inf"} THEN NaN
  ELSE LZero

\* sum of two log-space values (none of them +inf)
LAdd(a, b) ==
  IF a.k = "nan" \/ b.k = "nan" THEN NaN
  ELSE IF a.k = "ninf" \/ b.k = "ninf" THEN NInf
  ELSE Log(RMul(a.v, b.v))

\* a - m in log space
LSub(a, m) ==
  IF a.k = "nan" \/ m.k = "nan" THEN NaN
  ELSE IF m.k = "ninf" THEN (IF a.k = "ninf" THEN NaN ELSE PInf)
  ELSE IF a.k = "ninf" THEN NInf
  ELSE Log(RDiv(a.v, m.v))

\* a < b in log space
LLt(a, b) ==
  IF a.k = "nan" \/ b.k = "nan" THEN FALSE
  ELSE IF b.k = "ninf" THEN FALSE
  ELSE IF a.k = "ninf" THEN TRUE
  ELSE RLt(a.v, b.v)

\* nd.exp
LExp(a) ==
  IF a.k = "nan" THEN NaN
  ELSE IF a.k = "inf" THEN PInf
  ELSE IF a.k = "ninf" THEN Fin(RZero)
  ELSE Fin(Flush(a.v))

\* Sum of the float vector v over the classes, class 0 first.
RECURSIVE FSumUpTo(_, _)
FSumUpTo(v, y) == IF y < 0 THEN Fin(RZero) ELSE FAdd(FSumUpTo(v, y - 1), v[y])
FSum(v) == FSumUpTo(v, NumClasses - 1)

VARIABLES
  pc,        \* naive Bayes notebook: the cell or loop being executed
  seen,      \* the samples mnist_train has yielded, as a bag:
             \* sample -> how often (no entry for a sample not yielded)
  xcount,    \* xcount[i][y]
  ycount,    \* ycount[y]
  px,        \* px[i][y], <<>> before it is assigned
  py,        \* py[y], <<>> before it is assigned
  unnorm,    \* xprob as printed under 'Unnormalized Probabilities'
  xprob,     \* xprob as printed under 'Normalized Probabilities'
  logpx, logpxneg, logpy,
  logjoint,  \* bayespost: logpost before the maximum is subtracted
  logpost,   \* bayespost: logpost after the maximum is subtracted
  denom,     \* bayespost: np.sum(post)
  post,      \* the posterior the last call of bayespost returned
  data, label, \* the test sample last read: mnist_test[0], then the loop's
  ctr, err,
  rate,      \* the printed error rate
  tpc,       \* parameters notebook: position in the tied parameters cell
  store,     \* parameter name -> its data, <<>> while not allocated
  tlast,     \* the layer the last element write went through, 0 if none
  teq,       \* the printed comparisons of the tied parameters cell
  ipc,       \* parameters notebook: the last initialisation cell that ran
  netparams, \* parameter name of the first net -> its data, <<>> before
  initlog,   \* the names MyInit._init_weight printed ('Init', name, shape)
  vpc,       \* linear regression notebook: position in the addition cells
  vecA, vecB, \* the vectors a and b
  vecC, vecD, \* the vectors c and d, <<>> before they are assigned
  idx,       \* the loop variable i
  writes,    \* observer: index -> number of assignments c[i] = ... so far
  oob,       \* observer: TRUE once an index outside a, b or c was used
  now,       \* the wall clock that time() reads, in ticks
  start,     \* start = time()
  elapsed,   \* the values of time() - start the two cells displayed
  kpos,      \* notebook -> number of its code cells that have run
  kenv,      \* notebook -> the names bound in its kernel
  kerr       \* notebook -> the names a cell read while they were unbound

bayesVars == <<pc, seen, xcount, ycount, px, py, unnorm, xprob,
               logpx, logpxneg, logpy, logjoint, logpost, denom, post,
               data, label, ctr, err, rate>>
paramVars == <<tpc, store, tlast, teq>>
initVars == <<ipc, netparams, initlog>>
addVars == <<vpc, vecA, vecB, vecC, vecD, idx, writes, oob, now, start,
             elapsed>>
cellVars == <<kpos, kenv, kerr>>
\* The variables of the parts that the naive Bayes cells and the tied
\* parameters cell do not touch.
restVars == <<initVars, addVars, cellVars>>
vars == <<bayesVars, paramVars, restVars>>

None == <<>>

\* ============================================================ naive Bayes
\* Counters that start without the pseudo-count: nd.zeros((784,10)).
ZerosMatrix == [i \in Pixels |-> [y \in Classes |-> 0]]

\* nd.ones((784,10)) and nd.ones((10))
OnesMatrix == [i \in Pixels |-> [y \in Classes |-> 1]]
OnesVector == [y \in Classes |-> 1]

BayesInit ==
  /\ pc = "train"
  /\ seen = <<>>
  /\ xcount = OnesMatrix
  /\ ycount = OnesVector
  /\ px = None /\ py = None
  /\ unnorm = None /\ xprob = None
  /\ logpx = None /\ logpxneg = None /\ logpy = None
  /\ logjoint = None /\ logpost = None /\ denom = None /\ post = None
  /\ data = None /\ label = 0 /\ ctr = 0 /\ err = 0 /\ rate = None

RECURSIVE SumUpTo(_, _)
SumUpTo(v, y) == IF y < 0 THEN 0 ELSE SumUpTo(v, y - 1) + v[y]

\* Total multiplicity in seen of the samples of S.
RECURSIVE SeenSum(_)
SeenSum(S) ==
  IF S = {} THEN 0
  ELSE LET s == CHOOSE e \in S : TRUE IN seen[s] + SeenSum(S \ {s})

\* One iteration of 'for data, label in mnist_train'.
TrainStep(img, lab) ==
  /\ pc = "train"
  /\ SeenSum(DOMAIN seen) < MaxTrain
  /\ LET y == lab
         s == [data |-> img, label |-> lab]
     IN /\ ycount' = [ycount EXCEPT ![y] = @ + 1]
        /\ xcount' = [i \in Pixels |->
                        [xcount[i] EXCEPT ![y] = @ + img[i]]]
        /\ seen' = IF s \in DOMAIN seen
                   THEN [seen EXCEPT ![s] = @ + 1]
                   ELSE [e \in DOMAIN seen \cup {s} |->
                           IF e = s THEN 1 ELSE seen[e]]
  /\ UNCHANGED <<pc, px, py, unnorm, xprob, logpx, logpxneg, logpy,
                 logjoint, logpost, denom, post, data, label, ctr, err, rate,
                 paramVars, restVars>>

\* py = ycount / ycount.sum()
PriorOf(yc) == [y \in Classes |-> Rat(yc[y], SumUpTo(yc, NumClasses - 1))]
\* A division by the total count instead of the count of the class.
PixelProbByTotal(xc, yc) ==
  [i \in Pixels |-> [y \in Classes |-> Rat(xc[i][y], SumUpTo(yc, NumClasses - 1))]]

\* px = xcount / ycount.reshape(1,10)
PixelProbOf(xc, yc) == [i \in Pixels |-> [y \in Classes |-> Rat(xc[i][y], yc[y])]]

\* mnist_train is exhausted: the two divisions that end the first cell.
EndTraining ==
  /\ pc = "train"
  /\ py' = PriorOf(ycount)
  /\ px' = PixelProbOf(xcount, ycount)
  /\ pc' = "trained"
  /\ UNCHANGED <<seen, xcount, ycount, unnorm, xprob, logpx, logpxneg,
                 logpy, logjoint, logpost, denom, post, data, label, ctr, err, rate,
                 paramVars, restVars>>

\* ------------------------------------------------ the naive product cell
\* xprob = (px * data + (1-px) * (1-data)), one entry
PixelTerm(p, d) ==
  FAdd(FMul(Fin(p), Fin(<<d, 1>>)),
       FMul(Fin(RSub(ROne, p)), Fin(<<1 - d, 1>>)))

\* xprob.prod(0), entry y: the product over the pixels 1..i
RECURSIVE ProdUpTo(_, _, _, _)
ProdUpTo(pxv, img, y, i) ==
  IF i = 0 THEN Fin(ROne)
  ELSE FMul(ProdUpTo(pxv, img, y, i - 1), PixelTerm(pxv[i][y], img[i]))

Likelihood(pxv, img) == [y \in Classes |-> ProdUpTo(pxv, img, y, NumPixels)]

\* xprob = xprob.prod(0) * py
Unnormalized(lik, pyv) == [y \in Classes |-> FMul(lik[y], Fin(pyv[y]))]

\* A normalisation by the sum of the class likelihoods, prior left out.
NormalizedByLikelihood(lik, pyv) ==
  LET u == [y \in Classes |-> FMul(lik[y], Fin(pyv[y]))]
  IN [y \in Classes |-> FDiv(u[y], FSum(lik))]

\* A normalisation that leaves the vector alone when its sum is zero.
NormalizedGuarded(lik, pyv) ==
  LET u == [y \in Classes |-> FMul(lik[y], Fin(pyv[y]))]
  IN IF FSum(u) = Fin(RZero) THEN u
     ELSE [y \in Classes |-> FDiv(u[y], FSum(u))]

\* xprob = xprob / xprob.sum(), from the class likelihoods and the prior
Normalized(lik, pyv) ==
  LET u == Unnormalized(lik, pyv)
      s == FSum(u)
  IN [y \in Classes |-> FDiv(u[y], s)]

\* The cell that reads mnist_test[0] and prints both vectors.
NaiveCell(s) ==
  /\ pc = "trained"
  /\ data' = s.data
  /\ label' = s.label
  /\ LET lik == Likelihood(px, s.data)
     IN /\ unnorm' = Unnormalized(lik, py)
        /\ xprob' = Normalized(lik, py)
  /\ pc' = "naive"
  /\ UNCHANGED <<seen, xcount, ycount, px, py, logpx, logpxneg, logpy,
                 logjoint, logpost, denom, post, ctr, err, rate,
                 paramVars, restVars>>

\* ---------------------------------------------------------- the log cell
\* logpx = nd.log(px); logpxneg = nd.log(1-px); logpy = nd.log(py)
LogPx(pxv) == [i \in Pixels |-> [y \in Classes |-> FLog(Fin(pxv[i][y]))]]
LogPxNeg(pxv) ==
  [i \in Pixels |-> [y \in Classes |-> FLog(Fin(RSub(ROne, pxv[i][y])))]]
LogPy(pyv) == [y \in Classes |-> FLog(Fin(pyv[y]))]

LogCell ==
  /\ pc = "naive"
  /\ logpx' = LogPx(px)
  /\ logpxneg' = LogPxNeg(px)
  /\ logpy' = LogPy(py)
  /\ pc' = "logs"
  /\ UNCHANGED <<seen, xcount, ycount, px, py, unnorm, xprob,
                 logjoint, logpost, denom, post, data, label, ctr, err, rate,
                 paramVars, restVars>>

\* (logpx * data + logpxneg * (1-data)).sum(0), entry y, pixels 1..i
RECURSIVE LogSumUpTo(_, _, _)
LogSumUpTo(img, y, i) ==
  IF i = 0 THEN LZero
  ELSE LAdd(LogSumUpTo(img, y, i - 1),
            LAdd(LMulBit(logpx[i][y], img[i]),
                 LMulBit(logpxneg[i][y], 1 - img[i])))

\* logpost = logpy.copy(); logpost += (...).sum(0)
LogJoint(img) ==
  [y \in Classes |-> LAdd(logpy[y], LogSumUpTo(img, y, NumPixels))]

\* The values nd.max may return for v.  Without a nan it is the largest
\* entry.  The reduction does not define what a nan entry does to it: the
\* result is then nan or the largest of the other entries.
NdMax(v) ==
  LET good == {y \in Classes : ~IsNaN(v[y])}
      tops == {v[y] : y \in {z \in good : \A w \in good : ~LLt(v[z], v[w])}}
  IN IF good = Classes THEN tops ELSE tops \cup {NaN}

\* logpost -= nd.max(logpost), with m the value nd.max returned
Shifted(lj, m) == [y \in Classes |-> LSub(lj[y], m)]

\* post = nd.exp(logpost).asnumpy()
ExpOf(lp) == [y \in Classes |-> LExp(lp[y])]

\* post /= np.sum(post)
PostOf(e) == LET s == FSum(e) IN [y \in Classes |-> FDiv(e[y], s)]

\* post.max() of numpy: nan if an entry is nan
NpMax(v) ==
  IF \E y \in Classes : IsNaN(v[y]) THEN NaN
  ELSE LET top == CHOOSE z \in Classes : \A w \in Classes : ~FLt(v[z], v[w])
       IN v[top]

\* A test that also counts a tie for the maximum as an error.
IsErrorOnTie(p, y) ==
  \/ FLt(p[y], NpMax(p))
  \/ \E z \in Classes \ {y} : p[z] = p[y] /\ ~IsNaN(p[y])

\* if (post[y] < post.max())
IsError(p, y) == FLt(p[y], NpMax(p))

\* The error-rate cell up to the loop.  The plotting loop of the bayespost
\* cell (lines 184-205) is left out: ctr, data, label and post are all
\* assigned again by the error-rate cell before they are read.
ErrInit ==
  /\ pc = "logs"
  /\ ctr' = 0
  /\ err' = 0
  /\ pc' = "errloop"
  /\ UNCHANGED <<seen, xcount, ycount, px, py, unnorm, xprob, logpx,
                 logpxneg, logpy, logjoint, logpost, denom, post, data, label, rate,
                 paramVars, restVars>>

\* The rest of bayespost from the unshifted logpost lj, with m the value
\* nd.max returns: logpost after the shift, np.sum(post) and the returned
\* post.
Softmax(lj, m) ==
  LET sh == Shifted(lj, m)
      e == ExpOf(sh)
  IN [shifted |-> sh, sum |-> FSum(e), post |-> PostOf(e)]

\* One iteration of 'for data, label in mnist_test', the call of bayespost
\* included.
ErrStep(s) ==
  /\ pc = "errloop"
  /\ ctr < MaxTest
  /\ ctr = 0 => s = [data |-> data, label |-> label]
  /\ LET lj == LogJoint(s.data)
     IN \E m \in NdMax(lj) :
          LET r == Softmax(lj, m)
          IN /\ logjoint' = lj
             /\ logpost' = r.shifted
             /\ denom' = r.sum
             /\ post' = r.post
             /\ err' = IF IsError(r.post, s.label) THEN err + 1 ELSE err
  /\ ctr' = ctr + 1
  /\ data' = s.data
  /\ label' = s.label
  /\ UNCHANGED <<pc, seen, xcount, ycount, px, py, unnorm, xprob,
                 logpx, logpxneg, logpy, rate,
                 paramVars, restVars>>

\* mnist_test is exhausted: print(..., err/ctr).  The test set holds
\* mnist_test[0], so the loop has run at least once.
PrintErr ==
  /\ pc = "errloop"
  /\ ctr >= 1
  /\ rate' = Rat(err, ctr)
  /\ pc' = "done"
  /\ UNCHANGED <<seen, xcount, ycount, px, py, unnorm, xprob, logpx,
                 logpxneg, logpy, logjoint, logpost, denom, post, data, label,
                 ctr, err,
                 paramVars, restVars>>

BayesNext ==
  \/ \E s \in Samples : TrainStep(s.data, s.label)
  \/ EndTraining
  \/ \E s \in Samples : NaiveCell(s)
  \/ LogCell
  \/ ErrInit
  \/ \E s \in Samples : ErrStep(s)
  \/ PrintErr

ParamsIdle == tpc = "new" /\ store = None /\ tlast = 0 /\ teq = None

\* The first net of the parameters notebook does not exist yet.
InitIdle == ipc = "new" /\ netparams = None /\ initlog = {}

\* The linear regression notebook before its first code cell.
AddIdle ==
  /\ vpc = "new"
  /\ vecA = None /\ vecB = None /\ vecC = None /\ vecD = None
  /\ idx = 0 /\ writes = None /\ oob = FALSE
  /\ now = 0 /\ start = 0 /\ elapsed = <<>>

\* The notebooks of the repository, each with a kernel of its own.
Notebooks == {"naive-bayes", "parameters", "linear-regression"}

\* Fresh kernels: no cell has run and no name is bound.
CellsIdle ==
  /\ kpos = [n \in Notebooks |-> 0]
  /\ kenv = [n \in Notebooks |-> {}]
  /\ kerr = [n \in Notebooks |-> {}]

\* No cell of any notebook has run.
Init == BayesInit /\ ParamsIdle /\ InitIdle /\ AddIdle /\ CellsIdle

SpecBayes == Init /\ [][BayesNext]_vars

\* ======================================================= tied parameters
\* Of the four layers of the tied network the two that the cell ties are
\* modelled, net[1] (shared) and net[2]; net[0] and net[3] own parameters
\* of other shapes that no statement of the cell reads or writes.
TiedLayers == {1, 2}
Rows == 0..(WRows - 1)
Cols == 0..(WCols - 1)
\* Values the default initialiser may draw, and values written by hand.
InitValues == {-1, 1}
WriteValues == {-1, 1, 100}
Matrices(V) == [Rows -> [Cols -> V]]

\* The parameter a layer creates for itself.
OwnParam(l) == <<"dense", l, "weight">>
\* nn.Dense(8, activation='relu', params=given): the layer takes the given
\* parameters when there are some and creates its own otherwise.
DenseParam(l, given) == IF given = None THEN OwnParam(l) ELSE given

\* A network whose third layer is built without params=shared.params.
WeightParamUntied(l) == DenseParam(l, None)

\* The parameter that holds the weight of layer l: net[1] is shared, net[2]
\* is nn.Dense(8, activation='relu', params=shared.params).
WeightParam(l) ==
  IF l = 1 THEN DenseParam(1, None) ELSE DenseParam(l, DenseParam(1, None))
ParamNames == {WeightParam(l) : l \in TiedLayers}

\* net[l].weight.data()
Weight(l) == store[WeightParam(l)]

\* net = nn.Sequential(); shared = ...; net.add(...): parameters exist,
\* their data does not.
TiedConstruct ==
  /\ tpc = "new"
  /\ store' = [p \in ParamNames |-> None]
  /\ tpc' = "built"
  /\ UNCHANGED <<tlast, teq, bayesVars, restVars>>

\* net.initialize(): the input width is unknown, initialisation is deferred.
TiedInitialize ==
  /\ tpc = "built"
  /\ tpc' = "deferred"
  /\ UNCHANGED <<store, tlast, teq, bayesVars, restVars>>

\* net(x): the shapes are inferred and every parameter is allocated and
\* drawn once by the default initialiser.
TiedForward ==
  /\ tpc = "deferred"
  /\ \E w \in [ParamNames -> Matrices(InitValues)] : store' = w
  /\ tpc' = "ready"
  /\ UNCHANGED <<tlast, teq, bayesVars, restVars>>

\* net[1].weight.data()[0] == net[2].weight.data()[0]
RowEq == [c \in Cols |-> Weight(1)[0][c] = Weight(2)[0][c]]

TiedPrint1 ==
  /\ tpc = "ready"
  /\ teq' = <<RowEq>>
  /\ tpc' = "printed"
  /\ UNCHANGED <<store, tlast, bayesVars, restVars>>

\* net[l].weight.data()[r,c] = v
WriteElement(l, r, c, v) ==
  /\ store' = [store EXCEPT ![WeightParam(l)][r][c] = v]
  /\ tlast' = l

\* net[1].weight.data()[0,0] = 100
TiedSet100 ==
  /\ tpc = "printed"
  /\ WriteElement(1, 0, 0, 100)
  /\ tpc' = "set"
  /\ UNCHANGED <<teq, bayesVars, restVars>>

TiedPrint2 ==
  /\ tpc = "set"
  /\ teq' = Append(teq, RowEq)
  /\ tpc' = "done"
  /\ UNCHANGED <<store, tlast, bayesVars, restVars>>

\* Further element writes of the same form as the cell's, through either
\* of the two layers.
TiedWrite(l, r, c, v) ==
  /\ tpc = "done"
  /\ WriteElement(l, r, c, v)
  /\ UNCHANGED <<tpc, teq, bayesVars, restVars>>

ParamsNext ==
  \/ TiedConstruct
  \/ TiedInitialize
  \/ TiedForward
  \/ TiedPrint1
  \/ TiedSet100
  \/ TiedPrint2
  \/ \E l \in TiedLayers, r \in Rows, c \in Cols, v \in WriteValues :
       TiedWrite(l, r, c, v)

SpecParams == Init /\ [][ParamsNext]_vars

\* ============================================= parameter initialisation
\* The first net of the parameters notebook, nn.Dense(256) on 20 inputs
\* followed by nn.Dense(10), with its sizes scaled down.
Hidden == 2
Inputs == 2
Outputs == 1

NetParamNames ==
  {"dense0_weight", "dense0_bias", "dense1_weight", "dense1_bias"}
WeightNames == {"dense0_weight", "dense1_weight"}

\* <<rows, columns>> of a parameter; a bias of n entries is held as an
\* array of n rows and one column.
ShapeOf(name) ==
  CASE name = "dense0_weight" -> <<Hidden, Inputs>>
    [] name = "dense0_bias"   -> <<Hidden, 1>>
    [] name = "dense1_weight" -> <<Outputs, Hidden>>
    [] name = "dense1_bias"   -> <<Outputs, 1>>
RowsOf(name) == 0..(ShapeOf(name)[1] - 1)
ColsOf(name) == 0..(ShapeOf(name)[2] - 1)
Arrays(name, V) == [RowsOf(name) -> [ColsOf(name) -> V]]
Filled(name, v) == [r \in RowsOf(name) |-> [c \in ColsOf(name) |-> v]]

\* Parameter values are held in hundredths: 1 is 100, 0.01 is 1.
Hundredths(v) == v * 100
\* Values the random initialisers may draw: the default Uniform(0.07),
\* Normal(sigma=0.01), Xavier, and nd.random.uniform(low=-10, high=10),
\* whose interval contains -10 and does not contain 10.
UniformValues == {-7, 7}
NormalValues == {-1, 2}
XavierValues == {-14, 14}
MyInitDraws == {-1000, -500, -300, 499, 999}

Uniform == [kind |-> "uniform"]
Normal == [kind |-> "normal"]
Xavier == [kind |-> "xavier"]
Zeros == [kind |-> "zeros"]
MyInit == [kind |-> "myinit"]
Constant(v) == [kind |-> "constant", value |-> Hundredths(v)]

\* A mask that keeps every element.
MaskKeepAll(w) == 1
\* data.abs() >= 5, as the number the product uses
MaskKeep(w) == IF Abs(w) >= Hundredths(5) THEN 1 ELSE 0

\* MyInit._init_weight: data[:] = raw; data *= data.abs() >= 5
MyInitWeight(raw) ==
  [r \in DOMAIN raw |->
     [c \in DOMAIN raw[r] |-> raw[r][c] * MaskKeep(raw[r][c])]]

\* The arrays that init._init_weight(name, data) can leave in data.
InitWeight(init, name) ==
  CASE init.kind = "zeros"    -> {Filled(name, 0)}
    [] init.kind = "constant" -> {Filled(name, init.value)}
    [] init.kind = "uniform"  -> Arrays(name, UniformValues)
    [] init.kind = "normal"   -> Arrays(name, NormalValues)
    [] init.kind = "xavier"   -> Arrays(name, XavierValues)
    [] init.kind = "myinit"   ->
         {MyInitWeight(raw) : raw \in Arrays(name, MyInitDraws)}

\* The initialiser a Dense layer gives its parameter: 'zeros' for the bias,
\* none for the weight.
OwnInit(name) == IF name \in WeightNames THEN None ELSE Zeros

\* The initialiser Parameter.initialize(init, default_init) uses.
ChosenInit(name, init, default_init) ==
  IF init # None THEN init
  ELSE IF OwnInit(name) # None THEN OwnInit(name) ELSE default_init

\* The data of a parameter of the first net, <<>> while it has none.
Cur(name) == IF netparams = None THEN None ELSE netparams[name]

\* An initialize that never touches a parameter that has data.
ReinitializesNever(cur, force_reinit) == cur = None
\* Does Parameter.initialize initialise? Not when the parameter has data
\* and force_reinit is off.
Reinitializes(cur, force_reinit) == cur = None \/ force_reinit

\* Parameter.initialize(init, default_init, force_reinit): the data the
\* parameter can have afterwards.
ParamInitialize(name, init, default_init, force_reinit) ==
  IF Reinitializes(Cur(name), force_reinit)
  THEN InitWeight(ChosenInit(name, init, default_init), name)
  ELSE {Cur(name)}

\* The parameters of S that the call passes to MyInit._init_weight.
MyInitCalls(S, init, default_init, force_reinit) ==
  {name \in S : /\ Reinitializes(Cur(name), force_reinit)
                /\ ChosenInit(name, init, default_init) = MyInit}

\* The data after initialising the parameters of S and leaving the others.
Choices(name, S, init, default_init, force_reinit) ==
  IF name \in S THEN ParamInitialize(name, init, default_init, force_reinit)
  ELSE {Cur(name)}

\* block.initialize(init=default_init, force_reinit=...) on the block whose
\* parameters are S, or parameter.initialize(init=init, ...) on S = {it}.
Initialize(S, init, default_init, force_reinit) ==
  /\ \E w0 \in Choices("dense0_weight", S, init, default_init, force_reinit),
        b0 \in Choices("dense0_bias", S, init, default_init, force_reinit),
        w1 \in Choices("dense1_weight", S, init, default_init, force_reinit),
        b1 \in Choices("dense1_bias", S, init, default_init, force_reinit) :
       netparams' = [name \in NetParamNames |->
                       CASE name = "dense0_weight" -> w0
                         [] name = "dense0_bias"   -> b0
                         [] name = "dense1_weight" -> w1
                         [] name = "dense1_bias"   -> b1]
  /\ initlog' = IF init = MyInit \/ default_init = MyInit
                THEN MyInitCalls(S, init, default_init, force_reinit)
                ELSE initlog

\* The first code cell: net.initialize() defers, net(x) fixes the shapes
\* and the default initialiser fills every parameter.
FirstNet ==
  /\ ipc = "new"
  /\ Initialize(NetParamNames, None, Uniform, FALSE)
  /\ ipc' = "first"
  /\ UNCHANGED <<bayesVars, paramVars, addVars, cellVars>>

\* net.initialize(init=init.Normal(sigma=0.01), force_reinit=True)
\* The cells between the first and this one read parameters and build
\* rgnet; they assign nothing to the parameters of net.
NormalCell ==
  /\ ipc = "first"
  /\ Initialize(NetParamNames, None, Normal, TRUE)
  /\ ipc' = "normal"
  /\ UNCHANGED <<bayesVars, paramVars, addVars, cellVars>>

\* net.initialize(init=init.Constant(1), force_reinit=True)
ConstantCell ==
  /\ ipc = "normal"
  /\ Initialize(NetParamNames, None, Constant(1), TRUE)
  /\ ipc' = "const"
  /\ UNCHANGED <<bayesVars, paramVars, addVars, cellVars>>

\* net[1].initialize(init=init.Constant(42), force_reinit=True)
BlockSecondLayer ==
  /\ ipc = "const"
  /\ Initialize({"dense1_weight", "dense1_bias"}, None, Constant(42), TRUE)
  /\ ipc' = "block1"
  /\ UNCHANGED <<bayesVars, paramVars, addVars, cellVars>>

\* net[0].weight.initialize(init=init.Xavier(), force_reinit=True)
BlockFirstWeight ==
  /\ ipc = "block1"
  /\ Initialize({"dense0_weight"}, Xavier, Uniform, TRUE)
  /\ ipc' = "block"
  /\ UNCHANGED <<bayesVars, paramVars, addVars, cellVars>>

\* net.initialize(MyInit(), force_reinit=True)
MyInitCell ==
  /\ ipc = "block"
  /\ Initialize(NetParamNames, None, MyInit, TRUE)
  /\ ipc' = "myinit"
  /\ UNCHANGED <<bayesVars, paramVars, addVars, cellVars>>

\* data()[:] += v on a copy of the stored array: the parameter keeps its
\* data.
AddToCopy(w, v) == w
\* data()[:] += v on the array that data() returns, the stored one
AddToAll(w, v) == [r \in DOMAIN w |-> [c \in DOMAIN w[r] |-> w[r][c] + v]]
\* data()[r,c] = v
SetElement(w, r, c, v) == [w EXCEPT ![r][c] = v]

\* net[0].weight.data()[:] += 1; net[0].weight.data()[0,0] = 42
DirectCell ==
  /\ ipc = "myinit"
  /\ netparams' =
       [netparams EXCEPT !["dense0_weight"] =
          SetElement(AddToAll(@, Hundredths(1)), 0, 0, Hundredths(42))]
  /\ ipc' = "direct"
  /\ UNCHANGED <<initlog, bayesVars, paramVars, addVars, cellVars>>

InitNext ==
  \/ FirstNet
  \/ NormalCell
  \/ ConstantCell
  \/ BlockSecondLayer
  \/ BlockFirstWeight
  \/ MyInitCell
  \/ DirectCell

SpecInit == Init /\ [][InitNext]_vars

\* ==================================================== vector addition
\* The vectorization cells of the linear regression notebook.  The
\* variables vecA, vecB, vecC, vecD and idx are the notebook's a, b, c, d
\* and i.
Indices == 0..(VecLen - 1)
\* nd.ones(shape=10000), nd.zeros(shape=10000)
Ones == [i \in Indices |-> 1]
ZerosVec == [i \in Indices |-> 0]

\* A loop that stops one index short.
LoopRangeShort == 0..(VecLen - 2)
\* range(10000), the values the loop variable takes
LoopRange == 0..(VecLen - 1)

\* a + b on NDArrays of one shape
VecPlus(u, v) == [i \in DOMAIN u |-> u[i] + v[i]]

\* Time passes: the wall clock that time() reads advances.
Tick ==
  /\ now < MaxTick
  /\ now' = now + 1
  /\ UNCHANGED <<vpc, vecA, vecB, vecC, vecD, idx, writes, oob, start,
                 elapsed, bayesVars, paramVars, initVars, cellVars>>

\* a = nd.ones(shape=10000); b = nd.ones(shape=10000)
AddSetup ==
  /\ vpc = "new"
  /\ vecA' = Ones /\ vecB' = Ones
  /\ vpc' = "setup"
  /\ UNCHANGED <<vecC, vecD, idx, writes, oob, now, start, elapsed,
                 bayesVars, paramVars, initVars, cellVars>>

\* start = time(); c = nd.zeros(shape=10000)
LoopStart ==
  /\ vpc = "setup"
  /\ start' = now
  /\ vecC' = ZerosVec
  /\ writes' = [i \in Indices |-> 0]
  /\ idx' = 0
  /\ vpc' = "loop"
  /\ UNCHANGED <<vecA, vecB, vecD, oob, now, elapsed,
                 bayesVars, paramVars, initVars, cellVars>>

\* One iteration: c[i] = a[i] + b[i].  An index outside one of the vectors
\* raises IndexError and the cell stops.
LoopStep ==
  /\ vpc = "loop"
  /\ idx \in LoopRange
  /\ IF idx \in DOMAIN vecA /\ idx \in DOMAIN vecB /\ idx \in DOMAIN vecC
     THEN /\ vecC' = [vecC EXCEPT ![idx] = vecA[idx] + vecB[idx]]
          /\ writes' = [writes EXCEPT ![idx] = @ + 1]
          /\ idx' = idx + 1
          /\ UNCHANGED <<vpc, oob>>
     ELSE /\ oob' = TRUE
          /\ vpc' = "raised"
          /\ UNCHANGED <<vecC, writes, idx>>
  /\ UNCHANGED <<vecA, vecB, vecD, now, start, elapsed,
                 bayesVars, paramVars, initVars, cellVars>>

\* The loop is exhausted; the cell displays time() - start.
LoopEnd ==
  /\ vpc = "loop"
  /\ idx \notin LoopRange
  /\ elapsed' = Append(elapsed, now - start)
  /\ vpc' = "looped"
  /\ UNCHANGED <<vecA, vecB, vecC, vecD, idx, writes, oob, now, start,
                 bayesVars, paramVars, initVars, cellVars>>

\* start = time()
VecStart ==
  /\ vpc = "looped"
  /\ start' = now
  /\ vpc' = "vec"
  /\ UNCHANGED <<vecA, vecB, vecC, vecD, idx, writes, oob, now, elapsed,
                 bayesVars, paramVars, initVars, cellVars>>

\* d = a + b
VecAdd ==
  /\ vpc = "vec"
  /\ vecD' = VecPlus(vecA, vecB)
  /\ vpc' = "added"
  /\ UNCHANGED <<vecA, vecB, vecC, idx, writes, oob, now, start, elapsed,
                 bayesVars, paramVars, initVars, cellVars>>

\* time() - start
VecEnd ==
  /\ vpc = "added"
  /\ elapsed' = Append(elapsed, now - start)
  /\ vpc' = "done"
  /\ UNCHANGED <<vecA, vecB, vecC, vecD, idx, writes, oob, now, start,
                 bayesVars, paramVars, initVars, cellVars>>

AddNext ==
  \/ Tick
  \/ AddSetup
  \/ LoopStart
  \/ LoopStep
  \/ LoopEnd
  \/ VecStart
  \/ VecAdd
  \/ VecEnd

SpecAdd == Init /\ [][AddNext]_vars

\* ================================================= notebooks and kernels
\* Every code cell of a notebook as the names it reads before it binds
\* them itself (reads) and the names it binds by import, def, class,
\* assignment or for (binds).  A name read in a function body counts for
\* the cells that call the function.  Builtins (int, range, print) are
\* bound in every kernel and left out.
Cell(reads, binds) == [reads |-> reads, binds |-> binds]

BayesCells ==
  << Cell({}, {"plt", "display", "mx", "nd", "np", "transform",
               "mnist_train", "mnist_test", "xcount", "ycount", "data",
               "label", "y", "py", "px"}),
     Cell({"xcount", "py"}, {"plt", "fig", "figarr", "i"}),
     Cell({"mnist_test", "px", "py"}, {"data", "label", "xprob"}),
     Cell({"nd", "np", "px", "py", "plt", "mnist_test"},
          {"logpx", "logpxneg", "logpy", "bayespost", "fig", "figarr",
           "ctr", "data", "label", "x", "y", "post"}),
     Cell({"mnist_test", "bayespost", "logpx", "logpxneg", "logpy", "nd",
           "np"},
          {"ctr", "err", "data", "label", "x", "y", "post"}) >>

ParamCells ==
  << Cell({}, {"init", "nd", "nn", "net", "x"}),
     Cell({"net"}, {}),
     Cell({"net"}, {}),
     Cell({"net"}, {}),
     Cell({"net"}, {}),
     Cell({"net"}, {}),
     Cell({"net"}, {}),
     Cell({"net"}, {}),
     Cell({"nn", "x"}, {"block1", "block2", "rgnet"}),
     Cell({"rgnet"}, {}),
     Cell({"rgnet"}, {}),
     Cell({"net", "init"}, {}),
     Cell({"net", "init"}, {}),
     Cell({"net", "init"}, {}),
     Cell({"init", "nd", "net"}, {"MyInit"}),
     Cell({"net"}, {}),
     Cell({"nn", "nd"}, {"net", "shared", "x"}) >>

RegressionCells ==
  << Cell({}, {"nd", "time", "a", "b"}),
     Cell({"time", "nd", "a", "b"}, {"start", "c", "i"}),
     Cell({"time", "a", "b"}, {"start", "d"}),
     Cell({}, {"plt", "display", "nd", "math", "x", "parameters", "mu",
               "sigma", "p"}) >>

Cells(n) ==
  CASE n = "naive-bayes"       -> BayesCells
    [] n = "parameters"        -> ParamCells
    [] n = "linear-regression" -> RegressionCells

\* Cells run last to first.
CellToRunReversed(n) == Len(Cells(n)) - kpos[n]
\* Document order: the cell that runs after kpos[n] cells have run.
CellToRun(n) == kpos[n] + 1

\* The names a cell of notebook n can read: those bound in n's kernel.
Env(n) == kenv[n]

\* Run the next cell of notebook n.  A read of an unbound name raises
\* NameError; the names are recorded and the cell binds nothing.
RunCell(n) ==
  /\ kpos[n] < Len(Cells(n))
  /\ LET cell == Cells(n)[CellToRun(n)]
         missing == cell.reads \ Env(n)
     IN /\ kerr' = [kerr EXCEPT ![n] = @ \cup missing]
        /\ kenv' = [kenv EXCEPT ![n] =
                      IF missing = {} THEN @ \cup cell.binds ELSE @]
  /\ kpos' = [kpos EXCEPT ![n] = @ + 1]
  /\ UNCHANGED <<bayesVars, paramVars, initVars, addVars>>

CellsNext == \E n \in Notebooks : RunCell(n)

SpecCells == Init /\ [][CellsNext]_vars

\* ================================================================ claims
\* n, n_y and n_iy of the notebook's text, counted from the samples that
\* mnist_train yielded.
NTotal == SeenSum(DOMAIN seen)
NClass(y) == SeenSum({s \in DOMAIN seen : s.label = y})
NPixelOn(i, y) ==
  SeenSum({s \in DOMAIN seen : s.label = y /\ s.data[i] = 1})
Trained == pc # "train"

\* C2: after the training loop px[i,y] = (n_iy + 1) / (n_y + 1) for every
\* pixel i and class y.
C2_PixelProbLaplace ==
  Trained =>
    \A i \in Pixels, y \in Classes :
      px[i][y] = Rat(NPixelOn(i, y) + 1, NClass(y) + 1)

\* A class with two samples one of which has pixel 1 on, beside a class
\* without samples.
C2_Witness ==
  /\ Trained
  /\ \E y, z \in Classes :
       /\ NClass(y) = 2 /\ NPixelOn(1, y) = 1 /\ px[1][y] = <<2, 3>>
       /\ NClass(z) = 0 /\ px[1][z] = <<1, 1>>

\* C3: py[y] = n_y / n for every class y (n >= 1).
C3_PriorIsFrequency ==
  (Trained /\ NTotal >= 1) =>
    \A y \in Classes : py[y] = Rat(NClass(y), NTotal)

\* C9: after training px[i,y] > 0 for every pixel and class, also for a
\* pixel that is on in no training image of the class, and log(px) is
\* finite everywhere.
C9_PixelProbPositive ==
  /\ Trained => \A i \in Pixels, y \in Classes : RLt(RZero, px[i][y])
  /\ pc \in {"logs", "errloop", "done"} =>
       \A i \in Pixels, y \in Classes : logpx[i][y].k = "log"

\* The logarithms are taken of a model in which a class has samples and a
\* pixel that none of them has on.
C9_Witness ==
  /\ pc = "logs"
  /\ \E i \in Pixels, y \in Classes :
       /\ NClass(y) >= 1 /\ NPixelOn(i, y) = 0
       /\ RLt(RZero, px[i][y]) /\ logpx[i][y].k = "log"

TiedAllocated == tpc \in {"ready", "printed", "set", "done"}

\* C1: in the tied network net[1].weight equals net[2].weight elementwise
\* once the parameters are initialised and after every element write made
\* through either layer; right after net[1].weight[0,0] = 100 the element
\* net[2].weight[0,0] is 100 and the second printed comparison is all True.
C1_TiedWeightsEqual ==
  /\ TiedAllocated =>
       \A r \in Rows, c \in Cols : Weight(1)[r][c] = Weight(2)[r][c]
  /\ tpc = "set" => Weight(2)[0][0] = 100
  /\ tpc = "done" => \A c \in Cols : teq[2][c]

\* A write through net[2] after the cell's own write through net[1].
C1_Witness ==
  /\ tpc = "done"
  /\ tlast = 2
  /\ Weight(1)[1][1] = 100
  /\ Weight(2)[0][0] = 100
\* ------------------------------------------------------------------------
\* The naive product cell has run and data still is its test item.
Naived == pc \in {"naive", "logs"} \/ (pc = "errloop" /\ ctr = 0)
Called == pc \in {"errloop", "done"} /\ ctr >= 1

\* The product over the pixels 1..i of p(x_i | y), in exact arithmetic.
RECURSIVE ExactProdUpTo(_, _, _)
ExactProdUpTo(img, y, i) ==
  IF i = 0 THEN ROne
  ELSE RMul(ExactProdUpTo(img, y, i - 1),
            IF img[i] = 1 THEN px[i][y] ELSE RSub(ROne, px[i][y]))
\* p(y) * prod_i p(x_i | y), in exact arithmetic.
ExactJoint(img, y) == RMul(py[y], ExactProdUpTo(img, y, NumPixels))

\* C4: every iteration of the error-rate loop adds one to ctr and adds one
\* to err exactly when some class has a larger posterior than the true
\* label y (a tie for the maximum that includes y is no error);
\* 0 <= err <= ctr after every iteration, and the printed rate is err/ctr.
C4_ErrorCount ==
  [][ /\ (pc = "errloop" /\ pc' = "errloop") =>
           /\ ctr' = ctr + 1
           /\ err' = err + (IF \E z \in Classes : FLt(post'[label'], post'[z])
                            THEN 1 ELSE 0)
      /\ pc' \in {"errloop", "done"} => (0 <= err' /\ err' <= ctr')
      /\ (pc = "errloop" /\ pc' = "done") =>
           (ctr > 0 /\ rate'[1] * ctr = err * rate'[2])
    ]_vars

\* Two iterations with a model without zero probabilities; the first
\* sample was misclassified, the second was not.
C4_Witness ==
  /\ pc = "errloop" /\ ctr = 2 /\ err = 1
  /\ \A i \in Pixels, y \in Classes : RLt(px[i][y], ROne)
  /\ \A z \in Classes : post[z].k = "fin" /\ ~FLt(post[label], post[z])

\* C5: bayespost returns one non-negative entry per class, and the entries
\* sum to 1.
C5_PosteriorIsDistribution ==
  Called =>
    /\ DOMAIN post = Classes
    /\ \A y \in Classes : post[y].k = "fin" /\ RLe(RZero, post[y].v)
    /\ FSum(post) = Fin(ROne)

\* C6: after the maximum is subtracted every entry of logpost is <= 0 and
\* one is exactly 0, so one exponentiated term is 1, the normalising sum is
\* >= 1 and the division is no division by zero.
C6_ShiftedLogpost ==
  Called =>
    /\ \A y \in Classes :
         \/ logpost[y].k = "ninf"
         \/ logpost[y].k = "log" /\ RLe(logpost[y].v, ROne)
    /\ \E y \in Classes : logpost[y] = LZero
    /\ \E y \in Classes : LExp(logpost[y]) = Fin(ROne)
    /\ denom.k = "fin" /\ RLe(ROne, denom.v)

C8_LogJointIsLogOfProduct ==
  Called =>
    /\ \A y \in Classes : logjoint[y] = FLog(Fin(ExactJoint(data, y)))
    /\ \A y, z \in Classes :
         LLt(logjoint[y], logjoint[z]) <=> RLt(ExactJoint(data, y), ExactJoint(data, z))

\* C10: when the product the cell takes is zero for every class, the
\* normalisation divides by a zero sum and the result is nan for every
\* class.
C10_ZeroSumGivesNaN ==
  (Naived /\ \A y \in Classes : unnorm[y] = Fin(RZero)) =>
    /\ FSum(unnorm) = Fin(RZero)
    /\ \A y \in Classes : IsNaN(xprob[y])

\* Every class gives the image a positive probability, and every product
\* underflowed to zero.
C10_Witness ==
  /\ pc = "naive"
  /\ \A y \in Classes :
       /\ RLt(RZero, ExactJoint(data, y))
       /\ unnorm[y] = Fin(RZero)
       /\ IsNaN(xprob[y])

\* ------------------------------------------------ parameter initialisation
\* The support of the distribution of the Custom Initialization text:
\* 0, U[5, 10] and U[-10, -5].
InSupport(w) ==
  w = 0 \/ (Hundredths(5) <= Abs(w) /\ Abs(w) <= Hundredths(10))
\* The elements of the data of a parameter of the first net.
Elements(name) ==
  {netparams[name][r][c] : r \in RowsOf(name), c \in ColsOf(name)}

\* C11: after net.initialize(MyInit(), force_reinit=True) every element w of
\* every array that was passed to MyInit._init_weight is 0 or has
\* 5 <= |w| <= 10; no element other than 0 lies strictly between -5 and 5.
C11_MyInitSupport ==
  ipc = "myinit" => \A name \in initlog : \A w \in Elements(name) : InSupport(w)

\* MyInit ran on both weights; it zeroed an element, kept -5, the lower
\* end -10 and a value just under 10.
C11_Witness ==
  /\ ipc = "myinit"
  /\ initlog = WeightNames
  /\ (\E w \in Elements("dense0_weight") : w = 0)
  /\ (\E w \in Elements("dense0_weight") : w = -Hundredths(5))
  /\ (\E w \in Elements("dense0_weight") : w = -Hundredths(10))
  /\ netparams["dense1_weight"][0][0] = 999

\* C12: the direct-set cell writes through to the stored parameter: after
\* the cell net[0].weight[0,0] is 42 and every other element of
\* net[0].weight is its value before the cell plus 1.
C12_DirectSetWritesThrough ==
  [][ipc = "myinit" /\ ipc' = "direct" =>
       \A r \in RowsOf("dense0_weight"), c \in ColsOf("dense0_weight") :
         netparams'["dense0_weight"][r][c] =
           IF r = 0 /\ c = 0 THEN Hundredths(42)
           ELSE netparams["dense0_weight"][r][c] + Hundredths(1)]_vars

\* After the cell: 42 at [0,0], 1 where MyInit left 0, -4 where it left -5.
C12_Witness ==
  /\ ipc = "direct"
  /\ netparams["dense0_weight"][0][0] = Hundredths(42)
  /\ netparams["dense0_weight"][0][1] = Hundredths(1)
  /\ netparams["dense0_weight"][1][0] = -Hundredths(4)

C14_LoopEqualsVectorised ==
  /\ ~oob
  /\ vpc # "raised"
  /\ writes # None => \A i \in Indices : writes[i] <= 1
  /\ vpc \in {"looped", "vec", "added", "done"} =>
       \A i \in Indices : writes[i] = 1 /\ vecC[i] = vecA[i] + vecB[i]
  /\ vpc \in {"added", "done"} =>
       \A i \in Indices : vecD[i] = vecA[i] + vecB[i] /\ vecD[i] = vecC[i]

\* Both cells have run; the last index holds 1 + 1 in c and in d.
C14_Witness ==
  /\ vpc = "done"
  /\ vecC = vecD
  /\ vecC[VecLen - 1] = 2
  /\ \A i \in Indices : writes[i] = 1
  /\ Len(elapsed) = 2

\* ------------------------------------------------- notebooks and kernels
\* The names the cells of notebook n bind when all of them run.
BoundBy(n) == UNION {Cells(n)[k].binds : k \in DOMAIN Cells(n)}

\* C16: each notebook is self-contained: with the cells of a notebook run
\* in document order from a fresh kernel, every name a cell reads was bound
\* by that cell or an earlier cell of the same notebook (no NameError), and
\* a kernel holds only names its own notebook bound.
C16_SelfContained ==
  \A n \in Notebooks :
    /\ kerr[n] = {}
    /\ kenv[n] \subseteq BoundBy(n)
    /\ kpos[n] < Len(Cells(n)) => Cells(n)[kpos[n] + 1].reads \subseteq kenv[n]

\* Every cell of every notebook has run; px, net and a are bound where the
\* notebook's own cells bound them and nowhere else.
C16_Witness ==
  /\ \A n \in Notebooks : kpos[n] = Len(Cells(n)) /\ kerr[n] = {}
  /\ "px" \in kenv["naive-bayes"] /\ "px" \notin kenv["parameters"]
  /\ "net" \in kenv["parameters"] /\ "net" \notin kenv["linear-regression"]
  /\ "a" \in kenv["linear-regression"] /\ "a" \notin kenv["naive-bayes"]

====
